---- MODULE Spec2Model ----
(***************************************************************************)
(* The Socket.IO v4 long-polling gateway of meta-tabletop                  *)
(* (src/unnamed/part_003): the session registry, the room registry, the    *)
(* transport handler (handshake, poll, POST) and the event router with     *)
(* its broadcast.                                                          *)
(*                                                                         *)
(* JavaScript objects are kept apart from the ids that name them: `heap`   *)
(* holds the session objects in allocation order and the Map `sessions`    *)
(* takes a session id to the object registered under it, because           *)
(* handlePollingPost keeps its `session` reference across the await of the *)
(* request body.  Math.random (generateSessionId, generateRoomId) is an    *)
(* input: any id of the pool may come out, a used one included.            *)
(*                                                                         *)
(* `inflight` is the set of session objects that some POST holds while it  *)
(* awaits its body; several POSTs may hold the same object, so a POST that *)
(* ends may or may not leave its object in the set.                        *)
(*                                                                         *)
(* `body` is the text of a POST body as a sequence of characters and        *)
(* `decoded` what parseEngineIOPackets made of it; the gateway actions     *)
(* take the body already decoded (Bodies), and SpecCodec runs the decoder  *)
(* on texts.                                                               *)
(*                                                                         *)
(* Left out: lastActivity, createdAt and the `time` field of chat and log  *)
(* packets (wall-clock values no branch reads), CORS headers, logging.     *)
(* History variables, not program state: clock (number of queue pushes so  *)
(* far; every pushed item carries its serial `n` and the object `to` it    *)
(* was pushed to), delivered (per session object, what its polls returned, *)
(* in order).  A pushed item also carries `ev`, the value of clock when the *)
(* handling of the packet that caused the push began: the pushes of one    *)
(* event share it, and a later event has a larger one.  The response of a  *)
(* request is the `response` field of its handler's result; it is not kept *)
(* in the state.                                                           *)
(***************************************************************************)
EXTENDS Integers, Sequences, FiniteSets, TLC

\* ---------------------------------------------------------------- bounds
MaxObjects == 2      \* handshakes in a run
MaxClock == 3        \* queue pushes in a run
MaxRoomClock == 4    \* queue pushes in a run that starts with a room of two
MaxBodyLen == 4        \* characters of a POST body text
MaxPackets == 2        \* packets of a framed body text
MaxPacketLen == 2      \* characters of a packet of a framed body text
MaxWireClock == 3      \* packets pushed by the POSTs with text bodies

\* ---------------------------------------------------------------- values
SessionIdPool == {"s1", "s2"}     \* what generateSessionId can return
RoomIdPool == {"r1", "r2"}        \* what generateRoomId can return
UnknownSid == "sX"                \* a sid no handshake returned
UnknownRoomId == "rX"             \* a room id no createRoom returned
Undefined == "undefined"          \* JavaScript undefined (absent property)
Null == "null"                    \* JavaScript null

ENGINE_IO_PACKETS == [OPEN |-> "0", CLOSE |-> "1", PING |-> "2", PONG |-> "3",
                      MESSAGE |-> "4", UPGRADE |-> "5", NOOP |-> "6"]
SOCKET_IO_PACKETS == [CONNECT |-> "0", DISCONNECT |-> "1", EVENT |-> "2", ACK |-> "3",
                      CONNECT_ERROR |-> "4", BINARY_EVENT |-> "5", BINARY_ACK |-> "6"]

VARIABLES sessions, heap, rooms, inflight, clock, delivered, body, decoded, client
vars == <<sessions, heap, rooms, inflight, clock, delivered, body, decoded, client>>
codecVars == <<body, decoded>>
gatewayVars == <<sessions, heap, rooms, inflight, clock, delivered>>

\* ---------------------------------------------------------------- Map
MapHas(m, k) == k \in DOMAIN m
MapSet(m, k, v) == [x \in DOMAIN m \cup {k} |-> IF x = k THEN v ELSE m[x]]
MapDelete(m, k) == [x \in DOMAIN m \ {k} |-> m[x]]
EmptyMap == [x \in {} |-> Undefined]

\* JavaScript truthiness of a roomId value
Truthy(v) == v # Undefined /\ v # Null

\* A JSON object whose own "toString" is not a function, such as {"toString":1};
\* values are named by their JSON text.
UnprintableObject == "{\"toString\":1}"
\* whether `${v}` yields a string: ToPrimitive throws a TypeError for an object
\* with neither a callable toString nor a valueOf that returns a primitive
Printable(v) == v # UnprintableObject
\* an exception leaves the function; the state written so far stays
Throw(st) == [st EXCEPT !.threw = TRUE]

\* ---------------------------------------------------------------- encoded packets
\* An encoded string: its literal prefix, and for an event the JSON pair.
Text(t) == [text |-> t]
\* ENGINE_IO_PACKETS.MESSAGE + SOCKET_IO_PACKETS.EVENT + JSON.stringify([eventName, data])
EncodeEvent(eventName, data) ==
  [text |-> ENGINE_IO_PACKETS.MESSAGE \o SOCKET_IO_PACKETS.EVENT, name |-> eventName, data |-> data]

\* ---------------------------------------------------------------- transport framing
\* Strings are sequences of one-character strings; position i of the code (from 0)
\* is element i + 1.
Chars == {"4", "2", "1", ":", "a", "-"}
Digit == [c \in {"0", "1", "2", "3", "4", "5", "6", "7", "8", "9"} |->
            CASE c = "0" -> 0 [] c = "1" -> 1 [] c = "2" -> 2 [] c = "3" -> 3 [] c = "4" -> 4
              [] c = "5" -> 5 [] c = "6" -> 6 [] c = "7" -> 7 [] c = "8" -> 8 [] c = "9" -> 9]
\* a Number: NaN, or an integer
NaN == [isNaN |-> TRUE, value |-> 0]
Number(v) == [isNaN |-> FALSE, value |-> v]

Min(a, b) == IF a < b THEN a ELSE b
Max(a, b) == IF a > b THEN a ELSE b

\* String.prototype.substring(start, end): both clamped to 0..length, swapped if start > end
Substring(data, start, end) ==
  LET a == Min(Max(start, 0), Len(data))
      b == Min(Max(end, 0), Len(data))
  IN SubSeq(data, Min(a, b) + 1, Max(a, b))

\* data[i]: undefined past the end
CharAt(data, i) == IF 0 <= i /\ i < Len(data) THEN data[i + 1] ELSE Undefined

\* indexOf that searches from the start of the string, whatever `from` is
IndexOf_fromStart(data, ch, from) ==
  LET hits == {i \in 0..(Len(data) - 1) : data[i + 1] = ch} IN
  IF hits = {} THEN -1 ELSE CHOOSE i \in hits : \A j \in hits : i <= j

\* String.prototype.indexOf(ch, from): -1 when there is none
IndexOf(data, ch, from) ==
  LET hits == {i \in Max(from, 0)..(Len(data) - 1) : data[i + 1] = ch} IN
  IF hits = {} THEN -1 ELSE CHOOSE i \in hits : \A j \in hits : i <= j

\* data.includes(ch)
StringIncludes(data, ch) == IndexOf(data, ch, 0) # -1

\* parseInt(text): an optional sign, then the leading decimal digits; NaN when there
\* are none (white space and the 0x prefix are not among Chars)
RECURSIVE parseDigits(_, _, _, _)
parseDigits(text, i, acc, seen) ==
  IF i <= Len(text) /\ text[i] \in DOMAIN Digit
  THEN parseDigits(text, i + 1, 10 * acc + Digit[text[i]], TRUE)
  ELSE IF seen THEN Number(acc) ELSE NaN

parseInt(text) ==
  IF text # <<>> /\ Head(text) \in {"-", "+"}
  THEN LET v == parseDigits(text, 2, 0, FALSE) IN
       IF v.isNaN THEN NaN ELSE IF Head(text) = "-" THEN Number(0 - v.value) ELSE v
  ELSE parseDigits(text, 1, 0, FALSE)

\* The while loop of parseEngineIOPackets. An iteration is a function of data and
\* i alone, so the loop never ends once it stands at a position it has left before
\* (seen): the run is then reported as not halting, with the packets pushed so far.
RECURSIVE parseLoop(_, _, _, _)
parseLoop(data, i, packets, seen) ==
  IF i \in seen THEN [halts |-> FALSE, packets |-> packets]
  ELSE IF ~(i < Len(data)) THEN [halts |-> TRUE, packets |-> packets]
  ELSE LET lengthEnd == IndexOf(data, ":", i) IN
       IF lengthEnd = -1
       THEN [halts |-> TRUE,
             packets |-> Append(packets, [type |-> CharAt(data, i),
                                          payload |-> Substring(data, i + 1, Len(data))])]
       ELSE LET length == parseInt(Substring(data, i, lengthEnd)) IN
            IF length.isNaN THEN [halts |-> TRUE, packets |-> packets]
            ELSE LET packetStart == lengthEnd + 1
                     packetEnd == packetStart + length.value
                 IN IF packetEnd > Len(data) THEN [halts |-> TRUE, packets |-> packets]
                    ELSE LET packetData == Substring(data, packetStart, packetEnd) IN
                         parseLoop(data, packetEnd,
                                   Append(packets,
                                          [type |-> CharAt(packetData, 0),
                                           payload |-> Substring(packetData, 1,
                                                                 Len(packetData))]),
                                   seen \cup {i})

\* the run of parseEngineIOPackets(data): whether it returns, and the packets
parseEngineIOPackets(data) ==
  IF ~StringIncludes(data, ":")
  THEN [halts |-> TRUE,
        packets |-> <<[type |-> CharAt(data, 0), payload |-> Substring(data, 1, Len(data))]>>]
  ELSE parseLoop(data, 0, <<>>, {})

\* type tag followed by the serialized payload
EncodePacket(type, payload) == <<type>> \o payload

\* ---------------------------------------------------------------- session objects
NewSession(sessionId) ==
  [id |-> sessionId, connected |-> FALSE, messageQueue |-> <<>>, roomId |-> Undefined]

\* messageQueue.unshift(message): the message goes to the front of the queue
Push_unshift(st, o, message) ==
  [st EXCEPT !.heap[o].messageQueue =
               <<[pkt |-> message, n |-> st.clock + 1, to |-> o, ev |-> st.ev]>> \o @,
             !.clock = @ + 1]

\* The state the handlers work on.
\* playerSession.messageQueue.push(message): item n of the run, pushed to object o
Push(st, o, message) ==
  [st EXCEPT !.heap[o].messageQueue =
               Append(@, [pkt |-> message, n |-> st.clock + 1, to |-> o, ev |-> st.ev]),
             !.clock = @ + 1]

\* ---------------------------------------------------------------- broadcast
RECURSIVE broadcastLoop(_, _, _, _, _)
broadcastLoop(st, players, message, excludeSessionId, i) ==
  IF i > Len(players) THEN st
  ELSE LET playerId == players[i] IN
       IF playerId # excludeSessionId /\ MapHas(st.sessions, playerId)
       THEN broadcastLoop(Push(st, st.sessions[playerId], message),
                          players, message, excludeSessionId, i + 1)
       ELSE broadcastLoop(st, players, message, excludeSessionId, i + 1)

broadcastToRoom(st, roomId, eventName, data, excludeSessionId) ==
  IF ~MapHas(st.rooms, roomId) THEN st
  ELSE broadcastLoop(st, st.rooms[roomId].players, EncodeEvent(eventName, data),
                     excludeSessionId, 1)

\* ---------------------------------------------------------------- event router
\* room.players.filter(p => p !== sessionId)
RECURSIVE FilterOut(_, _)
FilterOut(players, sessionId) ==
  IF players = <<>> THEN <<>>
  ELSE IF Head(players) = sessionId THEN FilterOut(Tail(players), sessionId)
       ELSE <<Head(players)>> \o FilterOut(Tail(players), sessionId)

\* room.players.includes(sessionId)
Includes(players, sessionId) == \E i \in 1..Len(players) : players[i] = sessionId

\* createRoom without `session.roomId = roomId`
createRoom_noRoomId(st, sessionId, o, roomId) ==
  LET s1 == [st EXCEPT !.rooms = MapSet(@, roomId,
                          [id |-> roomId, host |-> sessionId, players |-> <<sessionId>>])]
  IN Push(s1, o, EncodeEvent("createdRoom", [roomId |-> roomId, isHost |-> TRUE]))

createRoom(st, sessionId, o, roomId) ==
  LET s1 == [st EXCEPT !.rooms = MapSet(@, roomId,
                          [id |-> roomId, host |-> sessionId, players |-> <<sessionId>>]),
                       !.heap[o].roomId = roomId]
  IN Push(s1, o, EncodeEvent("createdRoom", [roomId |-> roomId, isHost |-> TRUE]))

\* joinRoom that adds the player and leaves session.roomId as it was
joinRoom_noRoomId(st, sessionId, o, eventPayload) ==
  LET targetRoomId == eventPayload.roomId IN
  IF MapHas(st.rooms, targetRoomId) /\ ~Includes(st.rooms[targetRoomId].players, sessionId)
  THEN LET s1 == [st EXCEPT !.rooms[targetRoomId].players = Append(@, sessionId)]
           s2 == Push(s1, o, EncodeEvent("joinedRoom",
                                         [roomId |-> targetRoomId, isHost |-> FALSE]))
       IN broadcastToRoom(s2, targetRoomId, "playerJoined", [sessionId |-> sessionId],
                          sessionId)
  ELSE IF Printable(targetRoomId) THEN st ELSE Throw(st)

\* joinRoom without the `!room.players.includes(sessionId)` test
joinRoom_noIncludesTest(st, sessionId, o, eventPayload) ==
  LET targetRoomId == eventPayload.roomId IN
  IF MapHas(st.rooms, targetRoomId)
  THEN LET s1 == [st EXCEPT !.rooms[targetRoomId].players = Append(@, sessionId),
                            !.heap[o].roomId = targetRoomId]
           s2 == Push(s1, o, EncodeEvent("joinedRoom",
                                         [roomId |-> targetRoomId, isHost |-> FALSE]))
       IN broadcastToRoom(s2, targetRoomId, "playerJoined", [sessionId |-> sessionId],
                          sessionId)
  ELSE st

\* joinRoom that opens the room when the registry has none of that id
joinRoom_orCreate(st, sessionId, o, eventPayload) ==
  LET targetRoomId == eventPayload.roomId IN
  IF ~MapHas(st.rooms, targetRoomId)
  THEN createRoom(st, sessionId, o, targetRoomId)
  ELSE IF ~Includes(st.rooms[targetRoomId].players, sessionId)
       THEN LET s1 == [st EXCEPT !.rooms[targetRoomId].players = Append(@, sessionId),
                                 !.heap[o].roomId = targetRoomId]
                s2 == Push(s1, o, EncodeEvent("joinedRoom",
                                              [roomId |-> targetRoomId, isHost |-> FALSE]))
            IN broadcastToRoom(s2, targetRoomId, "playerJoined", [sessionId |-> sessionId],
                               sessionId)
       ELSE st

\* joinRoom that tells the caller when the registry has no room of that id
joinRoom_reportFailure(st, sessionId, o, eventPayload) ==
  LET targetRoomId == eventPayload.roomId IN
  IF ~MapHas(st.rooms, targetRoomId)
  THEN Push(st, o, EncodeEvent("joinFailed", [roomId |-> targetRoomId]))
  ELSE IF ~Includes(st.rooms[targetRoomId].players, sessionId)
       THEN LET s1 == [st EXCEPT !.rooms[targetRoomId].players = Append(@, sessionId),
                                 !.heap[o].roomId = targetRoomId]
                s2 == Push(s1, o, EncodeEvent("joinedRoom",
                                              [roomId |-> targetRoomId, isHost |-> FALSE]))
            IN broadcastToRoom(s2, targetRoomId, "playerJoined", [sessionId |-> sessionId],
                               sessionId)
       ELSE st

\* joinRoom whose broadcast leaves out the excludeSessionId argument
joinRoom_notifyAll(st, sessionId, o, eventPayload) ==
  LET targetRoomId == eventPayload.roomId IN
  IF MapHas(st.rooms, targetRoomId) /\ ~Includes(st.rooms[targetRoomId].players, sessionId)
  THEN LET s1 == [st EXCEPT !.rooms[targetRoomId].players = Append(@, sessionId),
                            !.heap[o].roomId = targetRoomId]
           s2 == Push(s1, o, EncodeEvent("joinedRoom",
                                         [roomId |-> targetRoomId, isHost |-> FALSE]))
       IN broadcastToRoom(s2, targetRoomId, "playerJoined", [sessionId |-> sessionId], Null)
  ELSE st

joinRoom(st, sessionId, o, eventPayload) ==
  LET targetRoomId == eventPayload.roomId IN
  IF MapHas(st.rooms, targetRoomId) /\ ~Includes(st.rooms[targetRoomId].players, sessionId)
  THEN LET s1 == [st EXCEPT !.rooms[targetRoomId].players = Append(@, sessionId),
                            !.heap[o].roomId = targetRoomId]
           s2 == Push(s1, o, EncodeEvent("joinedRoom",
                                         [roomId |-> targetRoomId, isHost |-> FALSE]))
       IN broadcastToRoom(s2, targetRoomId, "playerJoined", [sessionId |-> sessionId],
                          sessionId)
  ELSE IF Printable(targetRoomId) THEN st ELSE Throw(st)

\* leaveRoom that keeps the room when its last player has left
leaveRoom_keepEmpty(st, sessionId, o) ==
  LET roomId == st.heap[o].roomId IN
  IF Truthy(roomId)
  THEN LET s1 == IF MapHas(st.rooms, roomId)
                 THEN broadcastToRoom(
                        [st EXCEPT !.rooms[roomId].players = FilterOut(@, sessionId)],
                        roomId, "playerLeft", [sessionId |-> sessionId], sessionId)
                 ELSE st
           s2 == [s1 EXCEPT !.heap[o].roomId = Null]
       IN Push(s2, o, EncodeEvent("leftRoom", [empty |-> TRUE]))
  ELSE st

\* leaveRoom that does not tell the players who stay
leaveRoom_noNotify(st, sessionId, o) ==
  LET roomId == st.heap[o].roomId IN
  IF Truthy(roomId)
  THEN LET s1 == IF MapHas(st.rooms, roomId)
                 THEN LET players == FilterOut(st.rooms[roomId].players, sessionId) IN
                      IF Len(players) = 0
                      THEN [st EXCEPT !.rooms = MapDelete(@, roomId)]
                      ELSE [st EXCEPT !.rooms[roomId].players = players]
                 ELSE st
           s2 == [s1 EXCEPT !.heap[o].roomId = Null]
       IN Push(s2, o, EncodeEvent("leftRoom", [empty |-> TRUE]))
  ELSE st

\* leaveRoom that deletes the room whoever is left in it
leaveRoom_deleteAlways(st, sessionId, o) ==
  LET roomId == st.heap[o].roomId IN
  IF Truthy(roomId)
  THEN LET s1 == IF MapHas(st.rooms, roomId)
                 THEN [broadcastToRoom(
                         [st EXCEPT !.rooms[roomId].players = FilterOut(@, sessionId)],
                         roomId, "playerLeft", [sessionId |-> sessionId], sessionId)
                       EXCEPT !.rooms = MapDelete(@, roomId)]
                 ELSE st
           s2 == [s1 EXCEPT !.heap[o].roomId = Null]
       IN Push(s2, o, EncodeEvent("leftRoom", [empty |-> TRUE]))
  ELSE st

\* leaveRoom that answers leftRoom whether the session is in a room or not
leaveRoom_alwaysAnswers(st, sessionId, o) ==
  LET roomId == st.heap[o].roomId
      s1 == IF Truthy(roomId) /\ MapHas(st.rooms, roomId)
            THEN LET players == FilterOut(st.rooms[roomId].players, sessionId) IN
                 IF Len(players) = 0
                 THEN [st EXCEPT !.rooms = MapDelete(@, roomId)]
                 ELSE broadcastToRoom([st EXCEPT !.rooms[roomId].players = players],
                                      roomId, "playerLeft", [sessionId |-> sessionId],
                                      sessionId)
            ELSE st
      s2 == [s1 EXCEPT !.heap[o].roomId = Null]
  IN Push(s2, o, EncodeEvent("leftRoom", [empty |-> TRUE]))

leaveRoom(st, sessionId, o) ==
  LET roomId == st.heap[o].roomId IN
  IF Truthy(roomId)
  THEN LET s1 == IF MapHas(st.rooms, roomId)
                 THEN LET players == FilterOut(st.rooms[roomId].players, sessionId) IN
                      IF Len(players) = 0
                      THEN [st EXCEPT !.rooms = MapDelete(@, roomId)]
                      ELSE broadcastToRoom([st EXCEPT !.rooms[roomId].players = players],
                                           roomId, "playerLeft", [sessionId |-> sessionId],
                                           sessionId)
                 ELSE st
           s2 == [s1 EXCEPT !.heap[o].roomId = Null]
       IN Push(s2, o, EncodeEvent("leftRoom", [empty |-> TRUE]))
  ELSE st

\* eventPayload.type || 'chat'
TypeOrChat(type) == IF type = Undefined \/ type = Null \/ type = "" THEN "chat" ELSE type

\* chatMessage that passes the payload's type on as it is, without `|| 'chat'`
chatMessage_noDefaultType(st, sessionId, o, eventPayload) ==
  IF Truthy(st.heap[o].roomId)
  THEN broadcastToRoom(st, st.heap[o].roomId, "chatMessage",
                       [message |-> eventPayload.message, from |-> sessionId,
                        type |-> eventPayload.type],
                       Null)
  ELSE st

\* chatMessage that posts into the room the payload names, when it names one
chatMessage_payloadRoom(st, sessionId, o, eventPayload) ==
  LET target == IF Truthy(eventPayload.roomId) THEN eventPayload.roomId
                ELSE st.heap[o].roomId
  IN IF Truthy(target)
     THEN broadcastToRoom(st, target, "chatMessage",
                          [message |-> eventPayload.message, from |-> sessionId,
                           type |-> TypeOrChat(eventPayload.type)],
                          Null)
     ELSE st

chatMessage(st, sessionId, o, eventPayload) ==
  IF Truthy(st.heap[o].roomId)
  THEN broadcastToRoom(st, st.heap[o].roomId, "chatMessage",
                       [message |-> eventPayload.message, from |-> sessionId,
                        type |-> TypeOrChat(eventPayload.type)],
                       Null)
  ELSE st

logMessage(st, sessionId, o, eventPayload) ==
  IF Truthy(st.heap[o].roomId)
  THEN broadcastToRoom(st, st.heap[o].roomId, "logMessage",
                       [log |-> eventPayload.log, from |-> sessionId],
                       Null)
  ELSE st

\* eventData: [isArray, name, payload]; rnd: what generateRoomId returns if it is called
handleSocketIOEvent(st, sessionId, o, eventData, rnd) ==
  IF ~eventData.isArray THEN st
  ELSE LET eventName == eventData.name
           eventPayload == eventData.payload
       IN IF ~Printable(eventName) THEN Throw(st) ELSE
          CASE eventName = "createRoom" -> createRoom(st, sessionId, o, rnd)
            [] eventName = "joinRoom" -> joinRoom(st, sessionId, o, eventPayload)
            [] eventName = "leaveRoom" -> leaveRoom(st, sessionId, o)
            [] eventName = "chatMessage" -> chatMessage(st, sessionId, o, eventPayload)
            [] eventName = "logMessage" -> logMessage(st, sessionId, o, eventPayload)
            [] OTHER -> st

\* ---------------------------------------------------------------- POST bodies
NoPayload == [roomId |-> Undefined, message |-> Undefined, type |-> Undefined, log |-> Undefined]
Event(name, payload) == [isArray |-> TRUE, name |-> name, payload |-> payload]
NotAnArray == [isArray |-> FALSE, name |-> Undefined, payload |-> NoPayload]

\* A decoded transport packet {type, payload} with the Socket.IO packet its payload
\* decodes to, and the id Math.random yields while it is handled.
EnginePacket(type, sioType, data, rnd) ==
  [type |-> type, sio |-> sioType, data |-> data, rnd |-> rnd]
EventPacket(data, rnd) ==
  EnginePacket(ENGINE_IO_PACKETS.MESSAGE, SOCKET_IO_PACKETS.EVENT, data, rnd)

\* generateRoomId: any id of the pool (Math.random decides; nothing looks at rooms)
generateRoomId == RoomIdPool

CreateRoomPackets == {EventPacket(Event("createRoom", NoPayload), r) : r \in generateRoomId}
JoinRoomPackets ==
  {EventPacket(Event("joinRoom", [NoPayload EXCEPT !.roomId = r]), Undefined) :
     r \in RoomIdPool \cup {UnknownRoomId, Undefined}}
LeaveRoomPacket == EventPacket(Event("leaveRoom", NoPayload), Undefined)
ChatMessagePackets ==
  {EventPacket(Event("chatMessage", [NoPayload EXCEPT !.message = "hi", !.type = t]), Undefined) :
     t \in {Undefined, "emote"}}
LogMessagePacket ==
  EventPacket(Event("logMessage", [NoPayload EXCEPT !.log = "roll"]), Undefined)
PingPacket == EnginePacket(ENGINE_IO_PACKETS.PING, Undefined, NotAnArray, Undefined)
IgnoredPackets ==
  {EventPacket(Event("move", NoPayload), Undefined),
   EventPacket(NotAnArray, Undefined),
   EnginePacket(ENGINE_IO_PACKETS.MESSAGE, SOCKET_IO_PACKETS.CONNECT, NotAnArray, Undefined),
   EnginePacket(ENGINE_IO_PACKETS.NOOP, Undefined, NotAnArray, Undefined)}

\* events of which a part cannot be printed: 42[{"toString":1}] and
\* 42["joinRoom",{"roomId":{"toString":1}}]
ThrowingPackets ==
  {EventPacket(Event(UnprintableObject, NoPayload), Undefined),
   EventPacket(Event("joinRoom", [NoPayload EXCEPT !.roomId = UnprintableObject]), Undefined)}

Packets ==
  CreateRoomPackets \cup JoinRoomPackets \cup {LeaveRoomPacket} \cup ChatMessagePackets
  \cup {LogMessagePacket, PingPacket} \cup IgnoredPackets \cup ThrowingPackets

\* the packets of the two-packet bodies
PairPackets ==
  {p \in CreateRoomPackets \cup JoinRoomPackets : "r1" \in {p.rnd, p.data.payload.roomId}}
  \cup {LeaveRoomPacket, PingPacket}
  \cup {p \in ChatMessagePackets : p.data.payload.type = Undefined}

Bodies ==
  {<<p>> : p \in Packets} \cup {<<p, q>> : p \in PairPackets, q \in PairPackets}
  \cup {<<p, q>> : p \in {PingPacket} \cup ThrowingPackets,
                   q \in {PingPacket} \cup ThrowingPackets}

\* ---------------------------------------------------------------- transport handler
Response(status, text) == [status |-> status, body |-> text]
Result(st, resp) == [st |-> st, response |-> resp]

\* handlePollingGet without sid; sessionId is what generateSessionId returned
handshake(st, sessionId) ==
  LET o == Len(st.heap) + 1 IN
  Result([st EXCEPT !.heap = Append(@, NewSession(sessionId)),
                    !.delivered = Append(@, <<>>),
                    !.sessions = MapSet(@, sessionId, o)],
         Response(200, [text |-> ENGINE_IO_PACKETS.OPEN, sid |-> sessionId]))

\* handlePollingGet whose first poll throws away what was queued before it
handlePollingGet_connectDrops(st, sid) ==
  IF ~MapHas(st.sessions, sid)
  THEN Result(st, Response(400, Text("Session not found")))
  ELSE LET o == st.sessions[sid]
           session == st.heap[o]
       IN IF ~session.connected
          THEN Result([st EXCEPT !.heap[o].connected = TRUE,
                                 !.heap[o].messageQueue = <<>>],
                      Response(200, Text(ENGINE_IO_PACKETS.MESSAGE \o SOCKET_IO_PACKETS.CONNECT)))
          ELSE IF Len(session.messageQueue) > 0
               THEN LET message == Head(session.messageQueue) IN
                    Result([st EXCEPT !.heap[o].messageQueue = Tail(@),
                                      !.delivered[o] = Append(@, message)],
                           Response(200, message.pkt))
               ELSE Result(st, Response(200, Text("")))

\* handlePollingGet that takes the newest message (pop) instead of the oldest (shift)
handlePollingGet_pop(st, sid) ==
  IF ~MapHas(st.sessions, sid)
  THEN Result(st, Response(400, Text("Session not found")))
  ELSE LET o == st.sessions[sid]
           session == st.heap[o]
           q == session.messageQueue
       IN IF ~session.connected
          THEN Result([st EXCEPT !.heap[o].connected = TRUE],
                      Response(200, Text(ENGINE_IO_PACKETS.MESSAGE \o SOCKET_IO_PACKETS.CONNECT)))
          ELSE IF Len(q) > 0
               THEN Result([st EXCEPT !.heap[o].messageQueue = SubSeq(q, 1, Len(q) - 1),
                                      !.delivered[o] = Append(@, q[Len(q)])],
                           Response(200, q[Len(q)].pkt))
               ELSE Result(st, Response(200, Text("")))

\* handlePollingGet that returns the oldest message and empties the queue
handlePollingGet_flush(st, sid) ==
  IF ~MapHas(st.sessions, sid)
  THEN Result(st, Response(400, Text("Session not found")))
  ELSE LET o == st.sessions[sid]
           session == st.heap[o]
       IN IF ~session.connected
          THEN Result([st EXCEPT !.heap[o].connected = TRUE],
                      Response(200, Text(ENGINE_IO_PACKETS.MESSAGE \o SOCKET_IO_PACKETS.CONNECT)))
          ELSE IF Len(session.messageQueue) > 0
               THEN LET message == Head(session.messageQueue) IN
                    Result([st EXCEPT !.heap[o].messageQueue = <<>>,
                                      !.delivered[o] = Append(@, message)],
                           Response(200, message.pkt))
               ELSE Result(st, Response(200, Text("")))

\* handlePollingGet that returns the oldest message and leaves it in the queue
handlePollingGet_peek(st, sid) ==
  IF ~MapHas(st.sessions, sid)
  THEN Result(st, Response(400, Text("Session not found")))
  ELSE LET o == st.sessions[sid]
           session == st.heap[o]
       IN IF ~session.connected
          THEN Result([st EXCEPT !.heap[o].connected = TRUE],
                      Response(200, Text(ENGINE_IO_PACKETS.MESSAGE \o SOCKET_IO_PACKETS.CONNECT)))
          ELSE IF Len(session.messageQueue) > 0
               THEN LET message == Head(session.messageQueue) IN
                    Result([st EXCEPT !.delivered[o] = Append(@, message)],
                           Response(200, message.pkt))
               ELSE Result(st, Response(200, Text("")))

\* handlePollingGet that answers an empty queue with a NOOP packet
handlePollingGet_noop(st, sid) ==
  IF ~MapHas(st.sessions, sid)
  THEN Result(st, Response(400, Text("Session not found")))
  ELSE LET o == st.sessions[sid]
           session == st.heap[o]
       IN IF ~session.connected
          THEN Result([st EXCEPT !.heap[o].connected = TRUE],
                      Response(200, Text(ENGINE_IO_PACKETS.MESSAGE \o SOCKET_IO_PACKETS.CONNECT)))
          ELSE IF Len(session.messageQueue) > 0
               THEN LET message == Head(session.messageQueue) IN
                    Result([st EXCEPT !.heap[o].messageQueue = Tail(@),
                                      !.delivered[o] = Append(@, message)],
                           Response(200, message.pkt))
               ELSE Result(st, Response(200, Text(ENGINE_IO_PACKETS.NOOP)))

\* handlePollingGet that opens a session for a sid the registry does not know
handlePollingGet_createOnUnknown(st, sid) ==
  IF ~MapHas(st.sessions, sid)
  THEN handshake(st, sid)
  ELSE LET o == st.sessions[sid]
           session == st.heap[o]
       IN IF ~session.connected
          THEN Result([st EXCEPT !.heap[o].connected = TRUE],
                      Response(200, Text(ENGINE_IO_PACKETS.MESSAGE \o SOCKET_IO_PACKETS.CONNECT)))
          ELSE IF Len(session.messageQueue) > 0
               THEN LET message == Head(session.messageQueue) IN
                    Result([st EXCEPT !.heap[o].messageQueue = Tail(@),
                                      !.delivered[o] = Append(@, message)],
                           Response(200, message.pkt))
               ELSE Result(st, Response(200, Text("")))

\* handlePollingGet without `session.connected = true`
handlePollingGet_noFlag(st, sid) ==
  IF ~MapHas(st.sessions, sid)
  THEN Result(st, Response(400, Text("Session not found")))
  ELSE LET o == st.sessions[sid]
           session == st.heap[o]
       IN IF ~session.connected
          THEN Result(st, Response(200, Text(ENGINE_IO_PACKETS.MESSAGE \o SOCKET_IO_PACKETS.CONNECT)))
          ELSE IF Len(session.messageQueue) > 0
               THEN LET message == Head(session.messageQueue) IN
                    Result([st EXCEPT !.heap[o].messageQueue = Tail(@),
                                      !.delivered[o] = Append(@, message)],
                           Response(200, message.pkt))
               ELSE Result(st, Response(200, Text("")))

\* handlePollingGet with a sid
handlePollingGet(st, sid) ==
  IF ~MapHas(st.sessions, sid)
  THEN Result(st, Response(400, Text("Session not found")))
  ELSE LET o == st.sessions[sid]
           session == st.heap[o]
       IN IF ~session.connected
          THEN Result([st EXCEPT !.heap[o].connected = TRUE],
                      Response(200, Text(ENGINE_IO_PACKETS.MESSAGE \o SOCKET_IO_PACKETS.CONNECT)))
          ELSE IF Len(session.messageQueue) > 0
               THEN LET message == Head(session.messageQueue) IN
                    Result([st EXCEPT !.heap[o].messageQueue = Tail(@),
                                      !.delivered[o] = Append(@, message)],
                           Response(200, message.pkt))
               ELSE Result(st, Response(200, Text("")))

\* a request that has not been answered yet
NoResponseYet == Response(0, Text(""))

\* handlePollingPost up to the await of the request body
handlePollingPostBegin(st, sid) ==
  IF ~MapHas(st.sessions, sid)
  THEN Result(st, Response(400, Text("Session not found")))
  ELSE Result(st, NoResponseYet)

\* the for loop of handlePollingPost over the decoded packets
RECURSIVE processPackets(_, _, _, _, _)
processPackets(st, sid, o, packets, i) ==
  IF i > Len(packets) \/ st.threw THEN st
  ELSE LET packet == packets[i]
           s0 == [st EXCEPT !.ev = st.clock]
           s1 == IF packet.type = ENGINE_IO_PACKETS.MESSAGE
                 THEN IF packet.sio = SOCKET_IO_PACKETS.EVENT
                      THEN handleSocketIOEvent(s0, sid, o, packet.data, packet.rnd)
                      ELSE s0
                 ELSE IF packet.type = ENGINE_IO_PACKETS.PING
                      THEN Push(s0, o, Text(ENGINE_IO_PACKETS.PONG))
                      ELSE s0
       IN processPackets(s1, sid, o, packets, i + 1)

\* handlePollingPost whose for loop takes the packets from the last to the first
handlePollingPost_reversed(st, sid, o, packets) ==
  LET reversed == [i \in 1..Len(packets) |-> packets[Len(packets) + 1 - i]]
      s1 == processPackets(st, sid, o, reversed, 1) IN
  IF s1.threw
  THEN Result([s1 EXCEPT !.threw = FALSE], Response(500, Text("Internal Server Error")))
  ELSE Result(s1, Response(200, Text("ok")))

\* handlePollingPost after the await: the body has arrived and decodes to packets
handlePollingPost(st, sid, o, packets) ==
  LET s1 == processPackets(st, sid, o, packets, 1) IN
  IF s1.threw
  THEN Result([s1 EXCEPT !.threw = FALSE], Response(500, Text("Internal Server Error")))
  ELSE Result(s1, Response(200, Text("ok")))

\* ---------------------------------------------------------------- routing
\* url.pathname, character by character
SocketIOPath == <<"/", "s", "o", "c", "k", "e", "t", ".", "i", "o", "/">>
StartsWith(text, prefix) ==
  Len(text) >= Len(prefix) /\ SubSeq(text, 1, Len(prefix)) = prefix

\* a request as fetch reads it; a query parameter that is absent reads as null
Methods == {"GET", "POST", "OPTIONS", "PUT"}
Paths == {SocketIOPath, SubSeq(SocketIOPath, 1, 10), <<"/">>}
Requests ==
  [method : Methods, pathname : Paths, EIO : {"4", "3"},
   transport : {"polling", "websocket", Null}, sid : {"s1", Null}]

\* fetch without the test of the Engine.IO version
fetch_noVersionCheck(st, request, rnd) ==
  LET transport == request.transport
      sid == request.sid
  IN IF request.method = "OPTIONS" THEN Result(st, Response(204, Text("")))
     ELSE IF ~StartsWith(request.pathname, SocketIOPath)
     THEN Result(st, Response(404, Text("Not Found")))
     ELSE IF request.method = "GET" /\ transport = "polling"
     THEN IF ~Truthy(sid) THEN handshake(st, rnd) ELSE handlePollingGet(st, sid)
     ELSE IF request.method = "GET" /\ transport = "websocket"
     THEN Result(st, Response(400, Text("WebSocket not supported")))
     ELSE IF request.method = "POST" /\ transport = "polling"
     THEN handlePollingPostBegin(st, sid)
     ELSE Result(st, Response(400, Text("Bad Request")))

\* fetch up to its first await; rnd is what generateSessionId returns if it is
\* called. The body of the 204 response is null, read as the empty text.
fetch(st, request, rnd) ==
  LET transport == request.transport
      sid == request.sid
      eio == request.EIO
  IN IF request.method = "OPTIONS" THEN Result(st, Response(204, Text("")))
     ELSE IF ~StartsWith(request.pathname, SocketIOPath)
     THEN Result(st, Response(404, Text("Not Found")))
     ELSE IF eio # "4"
     THEN Result(st, Response(400, Text("Unsupported Engine.IO version")))
     ELSE IF request.method = "GET" /\ transport = "polling"
     THEN IF ~Truthy(sid) THEN handshake(st, rnd) ELSE handlePollingGet(st, sid)
     ELSE IF request.method = "GET" /\ transport = "websocket"
     THEN Result(st, Response(400, Text("WebSocket not supported")))
     ELSE IF request.method = "POST" /\ transport = "polling"
     THEN handlePollingPostBegin(st, sid)
     ELSE Result(st, Response(400, Text("Bad Request")))

\* the request is handed to handlePollingGet or handlePollingPost
Routed(request) ==
  /\ request.method \in {"GET", "POST"}
  /\ StartsWith(request.pathname, SocketIOPath)
  /\ request.EIO = "4"
  /\ request.transport = "polling"

\* ---------------------------------------------------------------- POST body texts
\* the decimal digits of a length below 100
DigitChars == <<"0", "1", "2", "3", "4", "5", "6", "7", "8", "9">>
Decimal(n) ==
  IF n < 10 THEN <<DigitChars[n + 1]>>
  ELSE <<DigitChars[(n \div 10) + 1], DigitChars[(n % 10) + 1]>>

\* a packet with its length prefix, as parseEngineIOPackets expects it
Frame(packet) == Decimal(Len(packet)) \o <<":">> \o packet

\* Transport packets as the client writes them, character by character.
\* 2
PingText == <<"2">>
\* 42["createRoom"]
CreateRoomText ==
  <<"4", "2", "[", "\"", "c", "r", "e", "a", "t", "e", "R", "o", "o", "m", "\"", "]">>
\* 42["leaveRoom"]
LeaveRoomText ==
  <<"4", "2", "[", "\"", "l", "e", "a", "v", "e", "R", "o", "o", "m", "\"", "]">>
\* 42[{"toString":1}]
UnprintableText ==
  <<"4", "2", "[", "{", "\"", "t", "o", "S", "t", "r", "i", "n", "g", "\"", ":", "1",
    "}", "]">>
\* the JSON texts of the events above
CreateRoomJSON == SubSeq(CreateRoomText, 3, Len(CreateRoomText))
LeaveRoomJSON == SubSeq(LeaveRoomText, 3, Len(LeaveRoomText))
UnprintableJSON == SubSeq(UnprintableText, 3, Len(UnprintableText))

\* the packets of the text bodies
WirePackets == {PingText, CreateRoomText, LeaveRoomText, UnprintableText}

\* message packets (type 4) with an event (type 2) whose payload is not JSON:
\* 42a, 42-, 424a, 42 (empty payload)
NonJSONPackets == {<<"4", "2", "a">>, <<"4", "2", "-">>, <<"4", "2", "4", "a">>, <<"4", "2">>}

\* what follows the well-formed packets of a body with a framing error: a prefix
\* that is not a number (a:2), an empty prefix (:2), a length beyond the end of the
\* body (9:2), negative lengths (-7: and -4:)
FramingErrors ==
  {<<"a", ":", "2">>, <<":", "2">>, <<"9", ":", "2">>, <<"-", "7", ":">>, <<"-", "4", ":">>}

\* one or two well-formed packets
WellFormedBodies ==
  {Frame(p) : p \in WirePackets} \cup {Frame(PingText) \o Frame(p) : p \in WirePackets}

\* the text bodies of the POST requests
WireBodies ==
  WellFormedBodies
  \cup {w \o e : w \in WellFormedBodies, e \in FramingErrors}
  \cup {Frame(n) \o Frame(p) : n \in NonJSONPackets, p \in {PingText, CreateRoomText}}
  \cup NonJSONPackets \cup {Frame(n) : n \in NonJSONPackets}

\* a JSON number without fraction and exponent: -?(0|[1-9][0-9]*)
IsNumberText(text) ==
  LET d == IF text # <<>> /\ Head(text) = "-" THEN Tail(text) ELSE text IN
  /\ d # <<>>
  /\ \A i \in 1..Len(d) : d[i] \in DOMAIN Digit
  /\ Len(d) > 1 => d[1] # "0"

\* JSON.parse on the three event texts and on texts over Chars: whether it returns,
\* and the value as the event router sees it (a number is not an array). No other
\* text over Chars is JSON.
JSONParse(text) ==
  CASE text = CreateRoomJSON -> [ok |-> TRUE, value |-> Event("createRoom", NoPayload)]
    [] text = LeaveRoomJSON -> [ok |-> TRUE, value |-> Event("leaveRoom", NoPayload)]
    [] text = UnprintableJSON -> [ok |-> TRUE, value |-> Event(UnprintableObject, NoPayload)]
    [] OTHER -> IF IsNumberText(text)
                THEN [ok |-> TRUE, value |-> NotAnArray]
                ELSE [ok |-> FALSE, value |-> NotAnArray]

\* parseSocketIOPacket that gives {type: null, data: null} when JSON.parse fails
parseSocketIOPacket_nullOnError(data) ==
  IF data = <<>> THEN [type |-> Null, data |-> NotAnArray, isString |-> FALSE, string |-> <<>>]
  ELSE LET type == CharAt(data, 0)
           payload == Substring(data, 1, Len(data))
           parsed == JSONParse(payload)
       IN IF parsed.ok
          THEN [type |-> type, data |-> parsed.value, isString |-> FALSE, string |-> <<>>]
          ELSE [type |-> Null, data |-> NotAnArray, isString |-> FALSE, string |-> <<>>]

\* {type, data}: data as the event router sees it, and when data is the payload
\* string itself (JSON.parse threw), that string
parseSocketIOPacket(data) ==
  IF data = <<>> THEN [type |-> Null, data |-> NotAnArray, isString |-> FALSE, string |-> <<>>]
  ELSE LET type == CharAt(data, 0)
           payload == Substring(data, 1, Len(data))
           parsed == JSONParse(payload)
       IN IF parsed.ok
          THEN [type |-> type, data |-> parsed.value, isString |-> FALSE, string |-> <<>>]
          ELSE [type |-> type, data |-> NotAnArray, isString |-> TRUE, string |-> payload]

\* the packets of a decoded body as the for loop of handlePollingPost takes them
socketPackets(packets, rnd) ==
  [i \in 1..Len(packets) |->
     LET socketIOPacket == parseSocketIOPacket(packets[i].payload) IN
     EnginePacket(packets[i].type, socketIOPacket.type, socketIOPacket.data, rnd)]

\* handlePollingPost after the await, on the text of the body; rnd is what
\* generateRoomId returns. A body the parser never leaves gets no response.
handlePollingPostBody(st, sid, o, text, rnd) ==
  LET run == parseEngineIOPackets(text) IN
  IF ~run.halts
  THEN Result(st, NoResponseYet)
  ELSE handlePollingPost(st, sid, o, socketPackets(run.packets, rnd))

\* ---------------------------------------------------------------- the state machine
State ==
  [sessions |-> sessions, heap |-> heap, rooms |-> rooms, clock |-> clock,
   delivered |-> delivered, ev |-> clock, threw |-> FALSE]

Install(r) ==
  /\ sessions' = r.st.sessions
  /\ heap' = r.st.heap
  /\ rooms' = r.st.rooms
  /\ clock' = r.st.clock
  /\ delivered' = r.st.delivered
  /\ UNCHANGED <<codecVars, client>>

\* no body text is being decoded
NotDecoded == [done |-> FALSE, packets |-> <<>>]
CodecIdle == body = <<>> /\ decoded = NotDecoded

\* the connection store of a page that is not in a browser: initializeSocket
\* returns at once, no socket is made
NoClient ==
  [socket |-> Null, fallbackServer |-> Null, retryCount |-> 0, connectionAttempts |-> 0,
   connected |-> FALSE, attempting |-> FALSE, timers |-> <<>>, retries |-> <<>>,
   connects |-> 0]

Init ==
  /\ sessions = EmptyMap
  /\ heap = <<>>
  /\ rooms = EmptyMap
  /\ inflight = {}
  /\ clock = 0
  /\ delivered = <<>>
  /\ CodecIdle
  /\ client = NoClient

\* generateSessionId: any id of the pool (Math.random and Date.now decide; nothing
\* looks at sessions)
generateSessionId == SessionIdPool

\* GET without sid
Handshake ==
  \E sessionId \in generateSessionId :
    /\ Len(heap) < MaxObjects
    /\ Install(handshake(State, sessionId))
    /\ UNCHANGED inflight

\* GET with a sid
Poll ==
  \E sid \in SessionIdPool \cup {UnknownSid} :
    /\ Install(handlePollingGet(State, sid))
    /\ UNCHANGED inflight

\* POST with a sid the registry does not know
PostNotFound ==
  \E sid \in SessionIdPool \cup {UnknownSid} :
    LET r == handlePollingPostBegin(State, sid) IN
    /\ r.response # NoResponseYet
    /\ Install(r)
    /\ UNCHANGED inflight

\* POST with a known sid, up to the await of the request body
PostBegin ==
  \E sid \in DOMAIN sessions :
    /\ inflight' = inflight \cup {sessions[sid]}
    /\ UNCHANGED <<sessions, heap, rooms, clock, delivered, body, decoded, client>>

\* the rest of the POST, once the body has arrived; max bounds the pushes of the run
PostBodyWithin(max) ==
  \E o \in inflight, packets \in Bodies :
    LET r == handlePollingPost(State, heap[o].id, o, packets) IN
    /\ r.st.clock <= max
    /\ Install(r)
    /\ inflight' \in {inflight \ {o}, inflight}

PostBody == PostBodyWithin(MaxClock)

\* request.text() rejects: the catch answers 500
PostError ==
  \E o \in inflight :
    /\ inflight' \in {inflight \ {o}, inflight}
    /\ UNCHANGED <<sessions, heap, rooms, clock, delivered, body, decoded, client>>

Next ==
  \/ Handshake
  \/ Poll
  \/ PostNotFound
  \/ PostBegin
  \/ PostBody
  \/ PostError

Spec == Init /\ [][Next]_vars

\* ---------------------------------------------------------------- a room of two
\* The gateway once s1 and s2 have shaken hands and polled their connect packet,
\* s1 has created r1, s2 has joined it and both have polled their queues empty.
\* The history variables start anew.
RECURSIVE Drain(_, _)
Drain(st, sid) ==
  IF st.heap[st.sessions[sid]].messageQueue = <<>> THEN st
  ELSE Drain(handlePollingGet(st, sid).st, sid)

RoomOfTwo ==
  LET empty == [sessions |-> EmptyMap, heap |-> <<>>, rooms |-> EmptyMap, clock |-> 0,
                delivered |-> <<>>, ev |-> 0, threw |-> FALSE]
      a == handshake(handshake(empty, "s1").st, "s2").st
      b == handlePollingGet(handlePollingGet(a, "s1").st, "s2").st
      c == handlePollingPost(b, "s1", b.sessions["s1"],
                             <<EventPacket(Event("createRoom", NoPayload), "r1")>>).st
      d == handlePollingPost(c, "s2", c.sessions["s2"],
                             <<EventPacket(Event("joinRoom", [NoPayload EXCEPT !.roomId = "r1"]),
                                           Undefined)>>).st
  IN Drain(Drain(d, "s1"), "s2")

InitRoom ==
  /\ sessions = RoomOfTwo.sessions
  /\ heap = RoomOfTwo.heap
  /\ rooms = RoomOfTwo.rooms
  /\ inflight = {}
  /\ clock = 0
  /\ delivered = [o \in DOMAIN RoomOfTwo.heap |-> <<>>]
  /\ CodecIdle
  /\ client = NoClient

RoomPostBody == PostBodyWithin(MaxRoomClock)

NextRoom ==
  \/ Poll
  \/ PostNotFound
  \/ PostBegin
  \/ RoomPostBody
  \/ PostError

SpecRoom == InitRoom /\ [][NextRoom]_vars

\* ---------------------------------------------------------------- the decoder on texts
RECURSIVE Strings(_)
Strings(n) ==
  IF n = 0 THEN {<<>>}
  ELSE LET shorter == Strings(n - 1) IN
       shorter \cup {Append(t, c) : t \in {u \in shorter : Len(u) = n - 1}, c \in Chars}

\* the texts a POST body can be: request.text() never fails to give a string
BodyTexts == Strings(MaxBodyLen)

\* packets as the client frames them: a type tag and a payload
PacketTexts == (Strings(MaxPacketLen) \ {<<>>}) \cup {CreateRoomText}
PacketSeqs == UNION {[1..n -> PacketTexts] : n \in 1..MaxPackets}

\* length(p1) + ":" + p1 + ... + length(pn) + ":" + pn
RECURSIVE Framed(_)
Framed(ps) == IF ps = <<>> THEN <<>> ELSE Frame(Head(ps)) \o Framed(Tail(ps))

FramedBodies == {Framed(ps) : ps \in PacketSeqs}

\* the bodies the decoder is run on
CodecBodies == (BodyTexts \ {<<>>}) \cup FramedBodies

InitCodec ==
  /\ sessions = EmptyMap
  /\ heap = <<>>
  /\ rooms = EmptyMap
  /\ inflight = {}
  /\ clock = 0
  /\ delivered = <<>>
  /\ body \in CodecBodies
  /\ decoded = NotDecoded
  /\ client = NoClient

\* const body = await request.text()
Receive ==
  /\ decoded.done
  /\ body' \in CodecBodies
  /\ decoded' = NotDecoded
  /\ UNCHANGED <<gatewayVars, client>>

\* const packets = parseEngineIOPackets(body)
Decode ==
  /\ ~decoded.done
  /\ parseEngineIOPackets(body).halts
  /\ decoded' = [done |-> TRUE, packets |-> parseEngineIOPackets(body).packets]
  /\ UNCHANGED <<body, sessions, heap, rooms, inflight, clock, delivered, client>>

\* the while loop goes round once more on a body it never leaves
Spin ==
  /\ ~decoded.done
  /\ ~parseEngineIOPackets(body).halts
  /\ UNCHANGED vars

NextCodec ==
  \/ Receive
  \/ Decode
  \/ Spin

SpecCodec == InitCodec /\ [][NextCodec]_vars

\* ---------------------------------------------------------------- requests on the wire
\* Two established sessions in room r1; requests arrive with their URL and the
\* POST bodies as text.
\* the requests fetch answers itself
RejectedRequests == {request \in Requests : ~Routed(request)}

\* a request that fetch answers itself: generateSessionId is not called
Reject ==
  \E request \in RejectedRequests :
    /\ Install(fetch(State, request, Undefined))
    /\ UNCHANGED inflight

\* the rest of a POST whose body arrives as text
PostText ==
  \E o \in inflight, text \in WireBodies, rnd \in generateRoomId :
    LET r == handlePollingPostBody(State, heap[o].id, o, text, rnd) IN
    /\ r.response # NoResponseYet
    /\ r.st.clock <= MaxWireClock
    /\ Install(r)
    /\ inflight' \in {inflight \ {o}, inflight}

\* a POST whose body keeps the parser in its loop: no response, nothing changes
PostHang ==
  \E o \in inflight, text \in WireBodies :
    /\ handlePollingPostBody(State, heap[o].id, o, text, Undefined).response = NoResponseYet
    /\ UNCHANGED vars

NextWire ==
  \/ Reject
  \/ Poll
  \/ PostNotFound
  \/ PostBegin
  \/ PostText
  \/ PostHang
  \/ PostError

SpecWire == InitRoom /\ [][NextWire]_vars

\* ---------------------------------------------------------------- properties
Objects == 1..Len(heap)

\* object o is the one the registry holds under its id
Registered(o) == MapHas(sessions, heap[o].id) /\ sessions[heap[o].id] = o

\* everything ever pushed to object o: what its polls returned, then what still waits
Items(o) == delivered[o] \o heap[o].messageQueue

\* the places <<o, i>> of all items
Positions == UNION {{<<o, i>> : i \in 1..Len(Items(o))} : o \in Objects}

IsEvent(pkt, name) == pkt.text = "42" /\ pkt.name = name

Holds(o, name) == \E i \in 1..Len(Items(o)) : IsEvent(Items(o)[i].pkt, name)

\* every handshake so far got an id of its own
DistinctSessionIds == \A o1, o2 \in Objects : o1 # o2 => heap[o1].id # heap[o2].id

NoDuplicates(players) ==
  \A i, j \in 1..Len(players) : i # j => players[i] # players[j]

\* C1: no session is ever handed a chatMessage packet that it sent itself: no
\* queue, and nothing a poll returned, holds a chatMessage whose `from` is the
\* id of the session it was pushed to.
C1_NoEcho ==
  \A o \in Objects : \A i \in 1..Len(Items(o)) :
    IsEvent(Items(o)[i].pkt, "chatMessage") => Items(o)[i].pkt.data.from # heap[o].id

\* C2: for every session s of the registry and every existing room r, s.roomId = r
\* exactly when r.players contains s's id (stated for the runs in which every
\* handshake got an id of its own, which the claim takes for granted).
C2_RoomIdIffMember ==
  DistinctSessionIds =>
    \A sid \in DOMAIN sessions : \A r \in DOMAIN rooms :
      (heap[sessions[sid]].roomId = r) <=> Includes(rooms[r].players, sid)

\* C3: a session's roomId, if set, names an existing room whose players contain
\* the session's id.
C3_RoomIdNotDangling ==
  \A sid \in DOMAIN sessions :
    LET roomId == heap[sessions[sid]].roomId IN
    Truthy(roomId) => MapHas(rooms, roomId) /\ Includes(rooms[roomId].players, sid)

\* C4: per session, polls return the messages in the order they were pushed: what
\* the polls returned so far, followed by what still waits in the queue, is in
\* increasing push order.
C4_Fifo ==
  \A o \in Objects : \A i, j \in 1..Len(Items(o)) : i < j => Items(o)[i].n < Items(o)[j].n

C4_Witness ==
  \E o \in Objects : Len(delivered[o]) >= 2 /\ Len(heap[o].messageQueue) >= 1

\* C5: every pushed message is in exactly one place, the queue it was pushed to or
\* the returns of that session's polls, and there once; a poll takes at most the
\* head of the polled session's queue, returns what it took and touches no other
\* queue. POSTs awaiting their body (inflight) do not change that.
C5_ExactlyOnce ==
  /\ \A o \in Objects : \A i \in 1..Len(Items(o)) : Items(o)[i].to = o
  /\ \A n \in 1..clock : Cardinality({oi \in Positions : Items(oi[1])[oi[2]].n = n}) = 1
  /\ \A sid \in DOMAIN sessions :
       LET r == handlePollingGet(State, sid)
           p == sessions[sid]
           q == heap[p].messageQueue
       IN /\ \A o \in Objects \ {p} : r.st.heap[o].messageQueue = heap[o].messageQueue
          /\ \/ r.st.heap[p].messageQueue = q
             \/ /\ q # <<>>
                /\ r.st.heap[p].messageQueue = Tail(q)
                /\ r.response.body = Head(q).pkt
                /\ r.st.delivered[p] = Append(delivered[p], Head(q))

C5_Witness ==
  \E o \in inflight :
    /\ Registered(o)
    /\ Len(delivered[o]) >= 1
    /\ Len(heap[o].messageQueue) >= 1

\* C6: every room of the registry has at least one player.
C6_NoEmptyRoom == \A r \in DOMAIN rooms : Len(rooms[r].players) >= 1

\* a leaveRoom has emptied the registry
C6_Witness ==
  /\ DOMAIN rooms = {}
  /\ \E o \in Objects : heap[o].roomId = Null /\ Holds(o, "leftRoom")

\* C7: when the only player of room r leaves, r is gone from the registry in the
\* state the leaveRoom produces; there a joinRoom naming r changes nothing, and a
\* chatMessage or logMessage of a session whose roomId still is r, and a broadcast
\* to r, push nothing.
C7_EmptyRoomGone ==
  \A o \in Objects :
    LET sid == heap[o].id
        r == heap[o].roomId
    IN (Truthy(r) /\ MapHas(rooms, r) /\ rooms[r].players = <<sid>>) =>
         LET st2 == leaveRoom(State, sid, o) IN
         /\ ~MapHas(st2.rooms, r)
         /\ \A o2 \in Objects :
              /\ joinRoom(st2, heap[o2].id, o2, [NoPayload EXCEPT !.roomId = r]) = st2
              /\ st2.heap[o2].roomId = r =>
                   /\ chatMessage(st2, heap[o2].id, o2, [NoPayload EXCEPT !.message = "hi"])
                        = st2
                   /\ logMessage(st2, heap[o2].id, o2, [NoPayload EXCEPT !.log = "roll"])
                        = st2
         /\ broadcastToRoom(st2, r, "playerLeft", [sessionId |-> sid], Null) = st2

\* the only player of a room has left it while another session's roomId names it
C7_Witness ==
  \E o, o2 \in Objects :
    /\ heap[o].roomId = Null
    /\ Holds(o, "leftRoom")
    /\ Truthy(heap[o2].roomId)
    /\ ~MapHas(rooms, heap[o2].roomId)

\* C8: no room lists a session id twice, and a joinRoom by a session whose id is in
\* the room's players leaves the players as they are.
C8_IdempotentJoin ==
  /\ \A r \in DOMAIN rooms : NoDuplicates(rooms[r].players)
  /\ \A o \in Objects : \A r \in DOMAIN rooms :
       Includes(rooms[r].players, heap[o].id) =>
         joinRoom(State, heap[o].id, o, [NoPayload EXCEPT !.roomId = r]).rooms[r].players
           = rooms[r].players

\* a join has happened: a room with two players, the second one told so
C8_Witness ==
  \E r \in DOMAIN rooms : \E o \in Objects :
    /\ Len(rooms[r].players) = 2
    /\ rooms[r].players[2] = heap[o].id
    /\ Holds(o, "joinedRoom")

\* C9: N handshakes produce N distinct session ids and N registry entries; no
\* handshake takes the place of a session that is registered.
C9_HandshakeUnique ==
  /\ DistinctSessionIds
  /\ Cardinality(DOMAIN sessions) = Len(heap)
  /\ \A o \in Objects : Registered(o)

\* C10: a createRoom handled now, by any POST that awaits its body, leaves every
\* existing room (host and players) as it is: the id it registers is not in use.
C10_FreshRoomId ==
  \A o \in inflight : \A roomId \in generateRoomId :
    LET st2 == createRoom(State, heap[o].id, o, roomId) IN
    /\ ~MapHas(rooms, roomId)
    /\ \A r \in DOMAIN rooms : st2.rooms[r] = rooms[r]

\* packets that broadcastToRoom sends
IsBroadcast(pkt) ==
  pkt.text = "42" /\ pkt.name \in {"playerJoined", "playerLeft", "chatMessage", "logMessage"}

\* C11: whenever a session has got (in its poll returns, then its queue) a broadcast
\* packet before another one, the event that caused the first was handled before
\* the event that caused the second, and every session that got packets of both
\* events has them in that order.
C11_BroadcastOrder ==
  \A o1, o2 \in Objects :
    \A i, j \in 1..Len(Items(o1)) : \A k, l \in 1..Len(Items(o2)) :
      ( /\ i < j
        /\ IsBroadcast(Items(o1)[i].pkt) /\ IsBroadcast(Items(o1)[j].pkt)
        /\ Items(o2)[k].ev = Items(o1)[i].ev
        /\ Items(o2)[l].ev = Items(o1)[j].ev )
      => Items(o1)[i].ev < Items(o1)[j].ev /\ k < l

\* two members have each posted a chatMessage and both have polled both
C11_Witness ==
  \E o1, o2 \in Objects :
    /\ o1 # o2
    /\ Len(delivered[o1]) = 2 /\ Len(delivered[o2]) = 2
    /\ \A o \in {o1, o2} :
         /\ IsEvent(delivered[o][1].pkt, "chatMessage")
         /\ IsEvent(delivered[o][2].pkt, "chatMessage")
         /\ delivered[o][1].pkt.data.from = heap[o1].id
         /\ delivered[o][2].pkt.data.from = heap[o2].id
         /\ delivered[o][1].ev < delivered[o][2].ev

\* C12: decoding the encoding of a transport packet (its type tag followed by its
\* payload) gives that one packet back, whatever the payload holds.
C12_RoundTrip ==
  decoded.done =>
    \A type \in Chars \ {":", "a", "-"} : \A payload \in BodyTexts :
      body = EncodePacket(type, payload) =>
        decoded.packets = <<[type |-> type, payload |-> payload]>>

\* the packets of a queue
Pkts(queue) == [i \in 1..Len(queue) |-> queue[i].pkt]

\* what the handlers that led from the current state to st2 pushed to object p
Pushed(st2, p) ==
  [i \in 1..(Len(st2.heap[p].messageQueue) - Len(heap[p].messageQueue)) |->
     st2.heap[p].messageQueue[Len(heap[p].messageQueue) + i].pkt]

\* in st2 the queue of p starts with what it holds now
Appended(st2, p) ==
  /\ Len(st2.heap[p].messageQueue) >= Len(heap[p].messageQueue)
  /\ SubSeq(st2.heap[p].messageQueue, 1, Len(heap[p].messageQueue)) = heap[p].messageQueue

\* object p is the session of a player of room r other than sid
OtherMember(p, r, sid) ==
  Registered(p) /\ heap[p].id # sid /\ Includes(rooms[r].players, heap[p].id)

ChatPayloads == {p.data.payload : p \in ChatMessagePackets}

\* C13: a chatMessage of session S whose roomId names room R appends one packet to
\* the queue of every player of R other than S: the chatMessage event with the
\* payload's message, from = S's id and the payload's type, "chat" if it has none.
C13_ChatFanOut ==
  \A o \in Objects : \A eventPayload \in ChatPayloads :
    LET sid == heap[o].id
        r == heap[o].roomId
    IN (Truthy(r) /\ MapHas(rooms, r)) =>
         LET st2 == chatMessage(State, sid, o, eventPayload)
             packet == [text |-> "42", name |-> "chatMessage",
                        data |-> [message |-> eventPayload.message, from |-> sid,
                                  type |-> IF eventPayload.type = Undefined THEN "chat"
                                           ELSE eventPayload.type]]
         IN \A p \in Objects :
              OtherMember(p, r, sid) => Appended(st2, p) /\ Pushed(st2, p) = <<packet>>

\* the other member of the room has polled a chatMessage that came without a type
C13_Witness ==
  \E o, p \in Objects :
    /\ Truthy(heap[o].roomId) /\ MapHas(rooms, heap[o].roomId)
    /\ OtherMember(p, heap[o].roomId, heap[o].id)
    /\ \E i \in 1..Len(delivered[p]) :
         /\ IsEvent(delivered[p][i].pkt, "chatMessage")
         /\ delivered[p][i].pkt.data = [message |-> "hi", from |-> heap[o].id, type |-> "chat"]

\* C14: a logMessage of session S whose roomId names room R appends the logMessage
\* packet (the log text, from = S's id) to the queue of every player of R other
\* than S, and nothing to the queue of S.
C14_LogFanOut ==
  \A o \in Objects :
    LET sid == heap[o].id
        r == heap[o].roomId
    IN (Truthy(r) /\ MapHas(rooms, r) /\ Registered(o)) =>
         LET st2 == logMessage(State, sid, o, LogMessagePacket.data.payload)
             packet == [text |-> "42", name |-> "logMessage",
                        data |-> [log |-> "roll", from |-> sid]]
         IN /\ \A p \in Objects :
                 OtherMember(p, r, sid) => Appended(st2, p) /\ Pushed(st2, p) = <<packet>>
            /\ st2.heap[o].messageQueue = heap[o].messageQueue

\* The two-session scenario up to its last step, from the room of two: s1 has posted
\* a chatMessage {message: "hi"}, s2 has polled it, nothing else was posted.
ScenarioBeforeLeave ==
  /\ sessions = RoomOfTwo.sessions
  /\ rooms = RoomOfTwo.rooms
  /\ clock = 2
  /\ Len(delivered[sessions["s2"]]) = 1
  /\ IsEvent(delivered[sessions["s2"]][1].pkt, "chatMessage")
  /\ delivered[sessions["s2"]][1].pkt.data = [message |-> "hi", from |-> "s1", type |-> "chat"]
  /\ heap[sessions["s2"]].messageQueue = <<>>

\* the state after s2 has posted leaveRoom
AfterLeave == handlePollingPost(State, "s2", sessions["s2"], <<LeaveRoomPacket>>).st

PlayerLeftS2 == [text |-> "42", name |-> "playerLeft", data |-> [sessionId |-> "s2"]]

\* C15 as claimed: at the end of the two-session scenario, when s2 posts leaveRoom
\* the room is gone from the registry and the next poll of s1 returns playerLeft.
C15_ScenarioEnd ==
  ScenarioBeforeLeave =>
    /\ ~MapHas(AfterLeave.rooms, "r1")
    /\ handlePollingGet(AfterLeave, "s1").response.body = PlayerLeftS2

\* C15 as amended: at the end of the two-session scenario, when s2 posts leaveRoom
\* the room stays in the registry with s1 as its only player, the roomId of s2 is
\* cleared, and playerLeft naming s2 is appended to the queue of s1: the next poll
\* of s1 returns it if that queue was empty, and otherwise returns the head of the
\* queue (the copy of its own chatMessage) and leaves playerLeft queued.
C15_ScenarioEndAmended ==
  ScenarioBeforeLeave =>
    LET o1 == sessions["s1"]
        o2 == sessions["s2"]
        q == heap[o1].messageQueue
        poll == handlePollingGet(AfterLeave, "s1")
    IN /\ MapHas(AfterLeave.rooms, "r1")
       /\ AfterLeave.rooms["r1"].players = <<"s1">>
       /\ AfterLeave.heap[o2].roomId = Null
       /\ Appended(AfterLeave, o1) /\ Pushed(AfterLeave, o1) = <<PlayerLeftS2>>
       /\ q = <<>> => poll.response.body = PlayerLeftS2
       /\ q # <<>> =>
            /\ poll.response.body = Head(q).pkt
            /\ IsEvent(Head(q).pkt, "chatMessage")
            /\ Pkts(poll.st.heap[o1].messageQueue) = Pkts(Tail(q)) \o <<PlayerLeftS2>>

\* the scenario has come to its end: s2 has left and s1 has polled playerLeft
C15_Witness ==
  /\ sessions = RoomOfTwo.sessions
  /\ MapHas(rooms, "r1") /\ rooms["r1"].players = <<"s1">>
  /\ heap[sessions["s2"]].roomId = Null
  /\ Len(delivered[sessions["s2"]]) >= 1
  /\ IsEvent(delivered[sessions["s2"]][1].pkt, "chatMessage")
  /\ delivered[sessions["s2"]][1].pkt.data = [message |-> "hi", from |-> "s1", type |-> "chat"]
  /\ Holds(sessions["s2"], "leftRoom")
  /\ \E i \in 1..Len(delivered[sessions["s1"]]) : delivered[sessions["s1"]][i].pkt = PlayerLeftS2

\* the state after the POST of object o with one event packet has been handled
AfterEvent(o, packet) == handlePollingPost(State, heap[o].id, o, <<packet>>).st

\* C16: a createRoom event of session S registers one room, with host S and players
\* [S], under the generated id and leaves the other rooms alone; it sets S.roomId to
\* that id and appends one createdRoom packet (the id, isHost true) to the queue of
\* S and nothing to any other queue. If S is established and its queue was empty,
\* its next poll returns that packet.
C16_CreateRoom ==
  \A o \in Objects : \A roomId \in generateRoomId :
    LET sid == heap[o].id
        st2 == AfterEvent(o, EventPacket(Event("createRoom", NoPayload), roomId))
        packet == [text |-> "42", name |-> "createdRoom",
                   data |-> [roomId |-> roomId, isHost |-> TRUE]]
    IN /\ DOMAIN st2.rooms = DOMAIN rooms \cup {roomId}
       /\ st2.rooms[roomId] = [id |-> roomId, host |-> sid, players |-> <<sid>>]
       /\ \A r \in DOMAIN rooms \ {roomId} : st2.rooms[r] = rooms[r]
       /\ st2.heap[o].roomId = roomId
       /\ Appended(st2, o) /\ Pushed(st2, o) = <<packet>>
       /\ \A p \in Objects \ {o} : st2.heap[p].messageQueue = heap[p].messageQueue
       /\ (Registered(o) /\ heap[o].connected /\ heap[o].messageQueue = <<>>) =>
            handlePollingGet(st2, sid).response = Response(200, packet)

\* an established session has created a room and polled its createdRoom packet
C16_Witness ==
  \E o \in Objects : \E r \in DOMAIN rooms :
    /\ Registered(o) /\ heap[o].connected
    /\ rooms[r] = [id |-> r, host |-> heap[o].id, players |-> <<heap[o].id>>]
    /\ heap[o].roomId = r
    /\ Pkts(delivered[o]) = <<[text |-> "42", name |-> "createdRoom",
                               data |-> [roomId |-> r, isHost |-> TRUE]]>>
    /\ heap[o].messageQueue = <<>>

JoinRoomPacket(r) == EventPacket(Event("joinRoom", [NoPayload EXCEPT !.roomId = r]), Undefined)

\* C17: a joinRoom event of session S naming a room R of the registry whose players
\* do not contain S appends S to the end of R's players, sets S.roomId to R, appends
\* one joinedRoom packet (R, isHost false) and nothing else to the queue of S, and
\* appends one playerJoined packet naming S to the queue of every other player of R
\* and nothing to the remaining queues.
C17_JoinRoom ==
  \A o \in Objects : \A r \in DOMAIN rooms :
    LET sid == heap[o].id IN
    ~Includes(rooms[r].players, sid) =>
      LET st2 == AfterEvent(o, JoinRoomPacket(r)) IN
      /\ st2.rooms[r].players = Append(rooms[r].players, sid)
      /\ st2.heap[o].roomId = r
      /\ Appended(st2, o)
      /\ Pushed(st2, o) = <<[text |-> "42", name |-> "joinedRoom",
                              data |-> [roomId |-> r, isHost |-> FALSE]]>>
      /\ \A p \in Objects \ {o} :
           /\ Appended(st2, p)
           /\ Pushed(st2, p) =
                IF OtherMember(p, r, sid)
                THEN <<[text |-> "42", name |-> "playerJoined", data |-> [sessionId |-> sid]]>>
                ELSE <<>>

\* a session has joined the room of another one: it was told joinedRoom, the host
\* was told playerJoined
C17_Witness ==
  \E o, p \in Objects : \E r \in DOMAIN rooms :
    /\ Registered(o) /\ Registered(p)
    /\ rooms[r].players = <<heap[p].id, heap[o].id>>
    /\ heap[o].roomId = r
    /\ \E i \in 1..Len(Items(o)) :
         Items(o)[i].pkt = [text |-> "42", name |-> "joinedRoom",
                            data |-> [roomId |-> r, isHost |-> FALSE]]
    /\ \E i \in 1..Len(Items(p)) :
         Items(p)[i].pkt = [text |-> "42", name |-> "playerJoined",
                            data |-> [sessionId |-> heap[o].id]]

\* players without sid, in their order
Without(players, sid) == SelectSeq(players, LAMBDA x : x # sid)

\* C18: a leaveRoom event of session S whose roomId names room R of the registry
\* takes S out of R's players, clears S.roomId and appends one leftRoom packet and
\* nothing else to the queue of S. If players remain, each of them gets one
\* playerLeft packet naming S appended to its queue; if none remains, R is deleted
\* and no other queue changes.
C18_LeaveRoom ==
  \A o \in Objects :
    LET sid == heap[o].id
        r == heap[o].roomId
    IN (Truthy(r) /\ MapHas(rooms, r)) =>
         LET st2 == AfterEvent(o, LeaveRoomPacket)
             remaining == Without(rooms[r].players, sid)
         IN /\ st2.heap[o].roomId = Null
            /\ Appended(st2, o)
            /\ Pushed(st2, o) = <<[text |-> "42", name |-> "leftRoom", data |-> [empty |-> TRUE]]>>
            /\ IF remaining = <<>>
               THEN /\ ~MapHas(st2.rooms, r)
                    /\ \A p \in Objects \ {o} : st2.heap[p].messageQueue = heap[p].messageQueue
               ELSE /\ MapHas(st2.rooms, r)
                    /\ st2.rooms[r].players = remaining
                    /\ \A p \in Objects \ {o} :
                         /\ Appended(st2, p)
                         /\ Pushed(st2, p) =
                              IF OtherMember(p, r, sid)
                              THEN <<[text |-> "42", name |-> "playerLeft",
                                      data |-> [sessionId |-> sid]]>>
                              ELSE <<>>

\* from the room of two, s2 has left (s1 was told playerLeft) and then s1 has left
\* as the last player (the room is gone, nobody was told playerLeft)
C18_Witness ==
  /\ sessions = RoomOfTwo.sessions
  /\ DOMAIN rooms = {}
  /\ \A o \in Objects : heap[o].roomId = Null
  /\ Pkts(Items(sessions["s2"])) =
       <<[text |-> "42", name |-> "leftRoom", data |-> [empty |-> TRUE]]>>
  /\ Pkts(Items(sessions["s1"])) =
       <<[text |-> "42", name |-> "playerLeft", data |-> [sessionId |-> "s2"]],
         [text |-> "42", name |-> "leftRoom", data |-> [empty |-> TRUE]]>>

C20_ConnectOnce ==
  /\ [](\A sid \in DOMAIN sessions :
          LET o == sessions[sid]
              r == handlePollingGet(State, sid)
          IN /\ r.st.heap[o].connected
             /\ (r.response.body = Text("40")) <=> ~heap[o].connected)
  /\ [][\A o \in Objects : heap[o].connected => heap'[o].connected]_vars

\* a session has polled its connect acknowledgement and, later, a queued packet
C20_Witness ==
  \E o \in Objects :
    /\ Registered(o)
    /\ heap[o].connected
    /\ Len(delivered[o]) >= 1
    /\ \A i \in 1..Len(Items(o)) : Items(o)[i].pkt # Text("40")

\* C21: a poll answers in its own step; it changes no room, no roomId and no queue
\* but the one of the polled session, and on a connected session with an empty
\* queue it answers 200 with an empty body and leaves the queue empty.
C21_PollFrame ==
  \A sid \in DOMAIN sessions :
    LET p == sessions[sid]
        r == handlePollingGet(State, sid)
    IN /\ r.response # NoResponseYet
       /\ r.st.rooms = rooms
       /\ \A o \in Objects : r.st.heap[o].roomId = heap[o].roomId
       /\ \A o \in Objects \ {p} : r.st.heap[o].messageQueue = heap[o].messageQueue
       /\ (heap[p].connected /\ heap[p].messageQueue = <<>>) =>
            /\ r.response = Response(200, Text(""))
            /\ r.st.heap[p].messageQueue = <<>>

\* a connected session in a room has polled its queue empty while the queue of
\* another session holds a packet
C21_Witness ==
  \E p, o \in Objects :
    /\ p # o
    /\ Registered(p) /\ heap[p].connected
    /\ Truthy(heap[p].roomId)
    /\ Len(delivered[p]) >= 1 /\ heap[p].messageQueue = <<>>
    /\ heap[o].messageQueue # <<>>

\* C22: a GET with a sid, or a POST, whose sid the registry does not hold is
\* answered 400 "Session not found" and changes nothing: no session is created, no
\* packet is handled, sessions and rooms stay as they are.
C22_UnknownSid ==
  \A sid \in (SessionIdPool \cup {UnknownSid}) \ DOMAIN sessions :
    /\ handlePollingGet(State, sid) = Result(State, Response(400, Text("Session not found")))
    /\ handlePollingPostBegin(State, sid) =
         Result(State, Response(400, Text("Session not found")))

\* the registry holds a session with a room, and an id of the pool is not in it
C22_Witness ==
  /\ SessionIdPool \ DOMAIN sessions # {}
  /\ \E o \in Objects : Registered(o) /\ Truthy(heap[o].roomId) /\ heap[o].messageQueue # <<>>

\* a ping in a POST body appends exactly one pong to the queue of the posting
\* session and nothing to any other queue
PingQueuesOnePong ==
  \A o \in Objects :
    LET st2 == AfterEvent(o, PingPacket) IN
    /\ Appended(st2, o) /\ Pushed(st2, o) = <<Text(ENGINE_IO_PACKETS.PONG)>>
    /\ \A p \in Objects \ {o} : st2.heap[p].messageQueue = heap[p].messageQueue
    /\ st2.rooms = rooms

\* every POST of a known session is answered 200 "ok"
PostAnswersOk ==
  \A o \in Objects : \A packets \in Bodies :
    handlePollingPost(State, heap[o].id, o, packets).response = Response(200, Text("ok"))

\* C23: a ping packet in a POST body appends exactly one pong ("3") to the posting
\* session's own queue, and the POST is always answered 200 "ok", whatever the
\* number and kinds of packets in the body.
C23_PingPong == PingQueuesOnePong /\ PostAnswersOk

\* event names that no case of the switch names
UnknownEventNames == {"move", "", Null, UnprintableObject}

\* C26: an event whose name is none of createRoom, joinRoom, leaveRoom, chatMessage,
\* logMessage changes no room, no roomId and no queue, and the POST carrying it is
\* answered 200.
C26_UnknownEvent ==
  \A o \in Objects : \A name \in UnknownEventNames :
    LET r == handlePollingPost(State, heap[o].id, o,
                               <<EventPacket(Event(name, NoPayload), Undefined)>>)
    IN /\ r.st.rooms = rooms
       /\ r.st.heap = heap
       /\ r.response.status = 200

\* C30: no content of a POST body makes the handler answer 500.
C30_NoContent500 ==
  \A o \in Objects : \A packets \in Bodies :
    handlePollingPost(State, heap[o].id, o, packets).response.status # 500

\* C24: parseEngineIOPackets returns a finite packet list for every request body,
\* whatever its length prefixes are (not a number, zero, negative, too large), so
\* the POST that carries the body gets its response.
C24_ParseTerminates == ~decoded.done => parseEngineIOPackets(body).halts

\* the well-formed bodies every packet of which can be handled
HandledBodies ==
  {Frame(p) : p \in WirePackets \ {UnprintableText}}
  \cup {Frame(PingText) \o Frame(p) : p \in WirePackets \ {UnprintableText}}

\* C27: a POST whose body has a framing error (a malformed length prefix or a
\* truncated packet) after well-formed packets is answered 200 "ok" and has the
\* effects of the well-formed packets before the error.
C27_FramingError ==
  \A o \in Objects : \A w \in HandledBodies : \A e \in FramingErrors :
    \A rnd \in generateRoomId :
      LET r == handlePollingPostBody(State, heap[o].id, o, w \o e, rnd) IN
      /\ r.response = Response(200, Text("ok"))
      /\ r.st = handlePollingPostBody(State, heap[o].id, o, w, rnd).st

\* C28: a message packet whose event payload is not JSON is decoded with the raw
\* remainder as an opaque string; it raises no error and changes nothing, the
\* later packets of the body are processed as if it were not there, and the POST
\* is answered 200.
C28_NonJSONPayload ==
  \A n \in NonJSONPackets :
    /\ parseSocketIOPacket(Tail(n)) =
         [type |-> SOCKET_IO_PACKETS.EVENT, data |-> NotAnArray, isString |-> TRUE,
          string |-> Tail(Tail(n))]
    /\ \A o \in Objects : \A rnd \in generateRoomId :
         /\ \A text \in {n, Frame(n)} :
              handlePollingPostBody(State, heap[o].id, o, text, rnd) =
                Result(State, Response(200, Text("ok")))
         /\ \A p \in {PingText, CreateRoomText} :
              /\ handlePollingPostBody(State, heap[o].id, o, Frame(n) \o Frame(p), rnd) =
                   handlePollingPostBody(State, heap[o].id, o, Frame(p), rnd)
              /\ handlePollingPostBody(State, heap[o].id, o, Frame(p), rnd).st # State

\* a session whose POST is under way has created a room by a text body, and the
\* packet after a non-JSON message packet would change the state
C28_Witness ==
  \E o \in inflight :
    /\ Holds(o, "createdRoom")
    /\ handlePollingPostBody(State, heap[o].id, o,
                              Frame(<<"4", "2", "a">>) \o Frame(CreateRoomText), "r2").st
         # State

\* C29: a request that fetch rejects changes nothing and gets its status: 204 for
\* OPTIONS, else 404 for a path outside /socket.io/, else 400 for
\* transport=websocket, for an Engine.IO version other than 4 and for every other
\* combination of method and transport.
C29_RoutingRejections ==
  \A request \in Requests : \A rnd \in generateSessionId :
    LET r == fetch(State, request, rnd)
        inside == StartsWith(request.pathname, SocketIOPath)
    IN /\ request.method = "OPTIONS" => r.response.status = 204 /\ r.st = State
       /\ (request.method # "OPTIONS" /\ ~inside) => r.response.status = 404 /\ r.st = State
       /\ ( /\ request.method # "OPTIONS" /\ inside
            /\ \/ request.transport = "websocket"
               \/ request.EIO # "4"
               \/ ~(request.method \in {"GET", "POST"} /\ request.transport = "polling") )
            => r.response.status = 400 /\ r.st = State

\* two rooms exist, an established session is in one of them with a packet in its
\* queue, and a POST is under way
C29_Witness ==
  /\ \E o \in Objects :
       /\ Registered(o) /\ heap[o].connected
       /\ Truthy(heap[o].roomId) /\ heap[o].messageQueue # <<>>
  /\ Cardinality(DOMAIN rooms) = 2
  /\ inflight # {}

\* sid is a player of room r in the registry m
IsPlayer(m, r, sid) == MapHas(m, r) /\ Includes(m[r].players, sid)

\* C25: whatever requests are under way, a create, join or leave is applied as a
\* whole: after the event the member lists and the roomId of the session of the
\* request have both been updated or neither, and the roomId of no other session
\* has changed.
C25_NoHalfApplied ==
  \A o \in Objects :
    \A packet \in CreateRoomPackets \cup JoinRoomPackets \cup {LeaveRoomPacket} :
      LET sid == heap[o].id
          old == heap[o].roomId
          st2 == AfterEvent(o, packet)
          new == st2.heap[o].roomId
      IN /\ \A r \in DOMAIN st2.rooms :
              (IsPlayer(st2.rooms, r, sid) /\ ~IsPlayer(rooms, r, sid)) => new = r
         /\ \A r \in DOMAIN rooms :
              (IsPlayer(rooms, r, sid) /\ ~IsPlayer(st2.rooms, r, sid)) => new = Null
         /\ (new # old /\ Truthy(new)) => IsPlayer(st2.rooms, new, sid)
         /\ (new # old /\ ~Truthy(new)) => ~IsPlayer(st2.rooms, old, sid)
         /\ \A p \in Objects \ {o} : st2.heap[p].roomId = heap[p].roomId

\* the POSTs of two sessions are under way at once while both are players of one
\* room, one by createRoom and one by joinRoom
C25_Witness ==
  \E o, p \in inflight :
    /\ o # p
    /\ Holds(o, "createdRoom") /\ Holds(p, "joinedRoom")
    /\ Truthy(heap[o].roomId) /\ heap[p].roomId = heap[o].roomId
    /\ IsPlayer(rooms, heap[o].roomId, heap[o].id)
    /\ IsPlayer(rooms, heap[o].roomId, heap[p].id)

\* the packets a sequence of packet texts stands for
PacketsOf(ps) == [i \in 1..Len(ps) |-> [type |-> Head(ps[i]), payload |-> Tail(ps[i])]]

\* C31: parseEngineIOPackets applied to length(p1):p1 ... length(pn):pn returns the
\* n packets in order, packet i with the first character of pi as type and the
\* rest of pi as payload, also when payloads contain ":".
C31_FramedRoundTrip ==
  decoded.done =>
    \A ps \in PacketSeqs : body = Framed(ps) => decoded.packets = PacketsOf(ps)

\* the decoder has returned from a body of two packets, the first with ":" in its
\* payload and the second with a length of two digits
C31_Witness ==
  /\ decoded.done
  /\ body = Framed(<<(<<"4", ":">>), CreateRoomText>>)

\* a text made of decimal digits only
IsDecimal(text) == text # <<>> /\ \A i \in 1..Len(text) : text[i] \in DOMAIN Digit

\* rem does not start with a well-formed length-prefixed packet: its prefix is not a
\* decimal number, or there is no separator, or it is shorter than it declares
MalformedRemainder(rem) ==
  /\ rem # <<>>
  /\ LET c == IndexOf(rem, ":", 0) IN
     \/ c = -1
     \/ ~IsDecimal(Substring(rem, 0, c))
     \/ Len(rem) - (c + 1) < parseInt(Substring(rem, 0, c)).value

\* C32: from a body of well-formed length-prefixed packets followed by a remainder
\* that is not one, parseEngineIOPackets returns the well-formed packets and no
\* packet of the remainder.
C32_MalformedRemainder ==
  decoded.done =>
    \A ps \in PacketSeqs :
      LET f == Framed(ps) IN
      (StartsWith(body, f) /\ MalformedRemainder(SubSeq(body, Len(f) + 1, Len(body))))
        => decoded.packets = PacketsOf(ps)

\* the items the handlers that led from the current state to st2 pushed to object r
PushedItems(st2, r) ==
  SubSeq(st2.heap[r].messageQueue, Len(heap[r].messageQueue) + 1,
         Len(st2.heap[r].messageQueue))

\* C33: the packets of one POST body are processed in body order and as one block:
\* what they enqueue is appended to each recipient's queue behind what it holds,
\* the packets of the first body packet before those of the second, with nothing
\* of another POST in between, however many POSTs are under way.
C33_BodyOrder ==
  \A o \in Objects : \A packets \in {b \in Bodies : Len(b) = 2} :
    LET s1 == AfterEvent(o, packets[1])
        st2 == handlePollingPost(State, heap[o].id, o, packets).st
    IN /\ \A r \in Objects :
            LET first == Pushed(s1, r)
                all == PushedItems(st2, r)
            IN /\ Appended(s1, r) /\ Appended(st2, r)
               /\ Len(all) >= Len(first)
               /\ \A i \in 1..Len(all) :
                    IF i <= Len(first)
                    THEN all[i].pkt = first[i] /\ all[i].ev = clock
                    ELSE all[i].ev = s1.clock
               /\ \A i, j \in 1..Len(all) : i < j => all[i].n < all[j].n
       /\ UNION {{PushedItems(st2, r)[i].n : i \in 1..Len(PushedItems(st2, r))} :
                   r \in Objects}
            = (clock + 1)..st2.clock

\* while the POSTs of two sessions are under way, one of them has got the two pongs
\* of a body of two pings behind a packet it held before
C33_Witness ==
  /\ Cardinality(inflight) = 2
  /\ \E o \in inflight :
       LET q == Items(o) IN
       /\ Len(q) = 3
       /\ q[1].pkt # Text(ENGINE_IO_PACKETS.PONG)
       /\ q[2].pkt = Text(ENGINE_IO_PACKETS.PONG) /\ q[3].pkt = Text(ENGINE_IO_PACKETS.PONG)
       /\ q[3].n = q[2].n + 1 /\ q[3].ev = q[2].n

\* the state after k polls of sid
RECURSIVE PollTimes(_, _, _)
PollTimes(st, sid, k) ==
  IF k = 0 THEN st ELSE PollTimes(handlePollingGet(st, sid).st, sid, k - 1)

\* C34: a packet with k packets ahead of it in the queue of an established session
\* is returned by the (k+1)-th poll of that session from now on, whether or not
\* another session enqueues packets in the meantime.
C34_PollReturnsInTurn ==
  \A o \in Objects :
    (Registered(o) /\ heap[o].connected) =>
      LET sid == heap[o].id
          q == heap[o].messageQueue
      IN \A k \in 0..(Len(q) - 1) :
           /\ handlePollingGet(PollTimes(State, sid, k), sid).response
                = Response(200, q[k + 1].pkt)
           /\ \A p \in Objects \ {o} : \A packet \in Packets :
                handlePollingGet(PollTimes(AfterEvent(p, packet), sid, k), sid).response
                  = Response(200, q[k + 1].pkt)

\* an established session holds two packets while the POST of the other session,
\* a member of its room, is under way
C34_Witness ==
  \E o \in Objects : \E p \in inflight :
    /\ p # o
    /\ Registered(o) /\ heap[o].connected
    /\ Len(heap[o].messageQueue) >= 2
    /\ Truthy(heap[o].roomId) /\ heap[p].roomId = heap[o].roomId

\* the room an event of session object o broadcasts in: the room named by a
\* joinRoom, the room of the sender for leaveRoom, chatMessage and logMessage
BroadcastRoom(o, packet) ==
  IF packet.data.name = "joinRoom" THEN packet.data.payload.roomId ELSE heap[o].roomId

\* C35: a broadcast packet for room R (chatMessage, logMessage, playerJoined,
\* playerLeft) is enqueued only to sessions whose roomId is R when it is broadcast
\* (stated for the runs in which every handshake got an id of its own).
C35_RoomIsolation ==
  DistinctSessionIds =>
  \A o \in Objects :
    \A packet \in JoinRoomPackets \cup {LeaveRoomPacket, LogMessagePacket}
                    \cup ChatMessagePackets :
      LET st2 == AfterEvent(o, packet) IN
      \A r \in Objects : \A i \in 1..Len(Pushed(st2, r)) :
        IsBroadcast(Pushed(st2, r)[i]) => heap[r].roomId = BroadcastRoom(o, packet)

\* every session id stays in the registry
SessionsStayKnown == [][DOMAIN sessions \subseteq DOMAIN sessions']_vars

\* every player of every room has a session in the registry
PlayersHaveSessions ==
  \A r \in DOMAIN rooms : \A i \in 1..Len(rooms[r].players) :
    MapHas(sessions, rooms[r].players[i])

\* C36: no operation removes a session from the registry or resets it: an id the
\* registry holds keeps naming the same session, with its established flag, queue
\* and roomId changed only by its own polls and the events.
C36_SessionsKept ==
  [][\A sid \in DOMAIN sessions :
       MapHas(sessions', sid) /\ sessions'[sid] = sessions[sid]]_vars

\* the room ids an event payload can name
PayloadRoomIds == RoomIdPool \cup {UnknownRoomId, Undefined}

\* packet with the roomId field of its event payload set to v
WithRoomId(packet, v) == [packet EXCEPT !.data.payload.roomId = v]

\* C37: what a chatMessage or logMessage does depends on the sender's roomId only:
\* whatever roomId the event payload names, the sessions and rooms end the same,
\* and a sender whose roomId is unset has no packet enqueued anywhere.
C37_PayloadRoomIgnored ==
  \A o \in Objects : \A packet \in ChatMessagePackets \cup {LogMessagePacket} :
    \A v \in PayloadRoomIds :
      LET st2 == AfterEvent(o, WithRoomId(packet, v)) IN
      /\ st2 = AfterEvent(o, packet)
      /\ ~Truthy(heap[o].roomId) =>
            /\ \A r \in Objects : st2.heap[r].messageQueue = heap[r].messageQueue
            /\ st2.rooms = rooms /\ st2.sessions = sessions

\* a session of room r1 has got a chatMessage of its room while another session,
\* in room r2, has got none
C37_Witness ==
  \E o, p \in Objects :
    /\ Registered(o) /\ Registered(p)
    /\ heap[o].roomId = "r1" /\ heap[p].roomId = "r2"
    /\ MapHas(rooms, "r1") /\ MapHas(rooms, "r2")
    /\ Holds(o, "chatMessage") /\ ~Holds(p, "chatMessage")

\* C38: a leaveRoom event of a session whose roomId is unset changes nothing: no
\* room is modified or deleted, no session changes and no packet is enqueued.
C38_LeaveWithoutRoom ==
  \A o \in Objects :
    ~Truthy(heap[o].roomId) =>
      LET st2 == AfterEvent(o, LeaveRoomPacket) IN
      /\ st2.rooms = rooms
      /\ st2.heap = heap
      /\ st2.sessions = sessions
      /\ st2.clock = clock
      /\ handlePollingPost(State, heap[o].id, o, <<LeaveRoomPacket>>).response
           = Response(200, Text("ok"))

\* a session that has left its room, its roomId unset, while a room that still
\* lists it exists
C38_Witness ==
  \E o \in Objects : \E r \in DOMAIN rooms :
    /\ Registered(o) /\ heap[o].roomId = Null
    /\ Holds(o, "leftRoom")
    /\ Includes(rooms[r].players, heap[o].id)

\* the state with session o established
Established(st, o) == [st EXCEPT !.heap[o].connected = TRUE]

\* C39: a body posted for a session that has not polled yet is handled as it is
\* for an established one; the first poll answers the connect acknowledgement
\* only and leaves the queue as it is, and the polls after it return the packets
\* that waited, in the order in which they were enqueued.
C39_EarlyEventsRetained ==
  \A o \in Objects :
    (Registered(o) /\ ~heap[o].connected) =>
      LET sid == heap[o].id
          queue == heap[o].messageQueue
          first == handlePollingGet(State, sid)
      IN /\ \A packets \in Bodies :
              LET early == handlePollingPost(State, sid, o, packets)
                  late == handlePollingPost(Established(State, o), sid, o, packets)
              IN /\ early.response = late.response
                 /\ Established(early.st, o) = late.st
                 /\ ~early.st.heap[o].connected
                 /\ Appended(early.st, o)
         /\ first.response =
              Response(200, Text(ENGINE_IO_PACKETS.MESSAGE \o SOCKET_IO_PACKETS.CONNECT))
         /\ first.st = Established(State, o)
         /\ \A k \in 1..Len(queue) :
              LET poll == handlePollingGet(PollTimes(State, sid, k), sid)
              IN /\ poll.response = Response(200, queue[k].pkt)
                 /\ poll.st.heap[o].messageQueue = SubSeq(queue, k + 1, Len(queue))
         /\ handlePollingGet(PollTimes(State, sid, Len(queue) + 1), sid).response
              = Response(200, Text(""))

\* a session that has not polled yet, with two packets waiting that events posted
\* before its first poll enqueued, the first of them the answer to its own event
C39_Witness ==
  \E o \in Objects :
    /\ Registered(o) /\ ~heap[o].connected
    /\ delivered[o] = <<>>
    /\ Len(heap[o].messageQueue) >= 2
    /\ IsEvent(heap[o].messageQueue[1].pkt, "createdRoom")

\* ---------------------------------------------------------------- the client's connection store
\* client.socket is the serverUrl the handlers of the socket in use were set up for;
\* client.attempting says that socket.connect() was called and neither 'connect'
\* nor 'connect_error' has answered it; client.timers are the setTimeout calls
\* that have not fired, [fn, delay]. client.retries (the delays of the retries
\* scheduled since the last 'connect') and client.connects (the 'connect' events
\* so far) are kept for the properties only.
MaxConnects == 2       \* 'connect' events of a run
MaxTimers == 3         \* setTimeout calls that have not fired

MAX_RETRIES == 3
primaryServer == "https://primary"
\* VITE_PVP_SERVER_CLOUDFLARE, or the default, which is the primary's address
FallbackServers == {primaryServer, "https://fallback"}

\* const delay = Math.min(1000 * (2 ** retryCount), 10000)
Delay(retryCount) == Min(1000 * (2 ^ retryCount), 10000)

\* socket.connect()
socketConnect(c) ==
  IF c.socket # Null /\ ~c.connected THEN [c EXCEPT !.attempting = TRUE] ELSE c

\* setupSocket(serverUrl): the socket in use is disconnected (its 'disconnect'
\* handler runs) and dropped, a new one is made and asked to connect
setupSocket(c, serverUrl) ==
  [c EXCEPT !.connectionAttempts = @ + 1,
            !.connected = FALSE,
            !.socket = serverUrl,
            !.attempting = TRUE]

\* socket.on('connect', ...)
onConnect(c) ==
  [c EXCEPT !.connected = TRUE,
            !.retryCount = 0,
            !.connectionAttempts = 0,
            !.attempting = FALSE,
            !.retries = <<>>,
            !.connects = @ + 1]

\* socket.on('disconnect', ...)
onDisconnect(c) == [c EXCEPT !.connected = FALSE]

\* connect_error handler that retries while retryCount <= MAX_RETRIES
onConnectError_retryAtMax(c) ==
  LET c1 == [c EXCEPT !.connected = FALSE, !.attempting = FALSE] IN
  IF c.socket = primaryServer /\ c.connectionAttempts = 1
  THEN [c1 EXCEPT !.timers = Append(@, [fn |-> "setupSocket", delay |-> 1000])]
  ELSE IF c.retryCount <= MAX_RETRIES
       THEN LET retryCount == c.retryCount + 1 IN
            [c1 EXCEPT !.retryCount = retryCount,
                       !.timers = Append(@, [fn |-> "connect", delay |-> Delay(retryCount)]),
                       !.retries = Append(@, Delay(retryCount))]
       ELSE c1

\* socket.on('connect_error', ...)
onConnectError(c) ==
  LET c1 == [c EXCEPT !.connected = FALSE, !.attempting = FALSE] IN
  IF c.socket = primaryServer /\ c.connectionAttempts = 1
  THEN [c1 EXCEPT !.timers = Append(@, [fn |-> "setupSocket", delay |-> 1000])]
  ELSE IF c.retryCount < MAX_RETRIES
       THEN LET retryCount == c.retryCount + 1 IN
            [c1 EXCEPT !.retryCount = retryCount,
                       !.timers = Append(@, [fn |-> "connect", delay |-> Delay(retryCount)]),
                       !.retries = Append(@, Delay(retryCount))]
       ELSE c1

\* the i-th setTimeout callback that has not fired yet fires
timeout(c, i) ==
  LET c1 == [c EXCEPT !.timers = SubSeq(@, 1, i - 1) \o SubSeq(@, i + 1, Len(@))] IN
  IF c.timers[i].fn = "setupSocket"
  THEN setupSocket(c1, c.fallbackServer)
  ELSE socketConnect(c1)

\* initializeSocket in a browser: setupSocket(currentServer)
InitClient ==
  /\ sessions = EmptyMap
  /\ heap = <<>>
  /\ rooms = EmptyMap
  /\ inflight = {}
  /\ clock = 0
  /\ delivered = <<>>
  /\ CodecIdle
  /\ client \in {setupSocket([NoClient EXCEPT !.fallbackServer = f], primaryServer) :
                   f \in FallbackServers}

ClientStep(c) == client' = c /\ UNCHANGED <<gatewayVars, codecVars>>

\* the attempt succeeds: 'connect'
ConnectEvent ==
  /\ client.attempting /\ ~client.connected
  /\ client.connects < MaxConnects
  /\ ClientStep(onConnect(client))

\* the attempt fails: 'connect_error'
ConnectErrorEvent ==
  /\ client.attempting /\ ~client.connected
  /\ Len(onConnectError(client).timers) <= MaxTimers
  /\ ClientStep(onConnectError(client))

\* the connection is lost, or disconnect() is called: 'disconnect'
DisconnectEvent ==
  /\ client.connected
  /\ ClientStep(onDisconnect(client))

\* a setTimeout callback runs
Timeout ==
  \E i \in 1..Len(client.timers) : ClientStep(timeout(client, i))

\* the switch to the fallback server has been scheduled and has not run
SwitchDue(c) == \E i \in 1..Len(c.timers) : c.timers[i].fn = "setupSocket"

\* connect(): the page asks for a connection (and so does the socket's own
\* reconnection after an attempt that failed). No attempt starts while the switch
\* to the fallback server is due: that timer runs 1000 ms after the failure, and
\* the socket opens again only with its own reconnection, which the options put
\* at reconnectionDelay 2000 ms, randomized to more than 1000 ms.
connect ==
  /\ ~client.connected /\ ~client.attempting
  /\ ~SwitchDue(client)
  /\ ClientStep(socketConnect(client))

NextClient ==
  \/ ConnectEvent
  \/ ConnectErrorEvent
  \/ DisconnectEvent
  \/ Timeout
  \/ connect

SpecClient == InitClient /\ [][NextClient]_vars

\* the delays of the first n retries
RetryDelays(n) == [k \in 1..n |-> Min(1000 * (2 ^ k), 10000)]

====
